---- MODULE Spec2Model ----
(***************************************************************************)
(* SignalDrift pricing-and-arbitrage core.                                 *)
(*                                                                         *)
(*  - Cross-market matcher: the greedy walk over the sell sides of two     *)
(*    complementary order books (src/unnamed/part_006).                    *)
(*  - Odds normalizer: the three convert_to_implied functions              *)
(*    (src/src/AVG_FAIR_ODDS_STRATEGY.md).                                 *)
(*  - Fair value aggregator: vig removal and the weighted sum              *)
(*    (src/notes/20250601-meeting.md).                                     *)
(*  - Manual odds entry: submit_odds and clear_data of the notebook        *)
(*    (src/notebooks/manual_odds_entry.ipynb).                             *)
(*                                                                         *)
(* Prices are integers in cents (0.47 is 47, one dollar is 100), so every  *)
(* comparison against the one-dollar threshold is exact.  Probabilities    *)
(* produced by the normalizer are exact rationals <<num, den>>.            *)
(***************************************************************************)
EXTENDS Integers, Sequences, FiniteSets, TLC

VARIABLES
    store,      \* the order books in memory: cell name -> sequence of price levels
    curA,       \* the cell the matcher walks for market a
    curB,       \* the cell the matcher walks for market b
    origA,      \* what the caller passed for side A (never written)
    origB,      \* what the caller passed for side B (never written)
    margin,     \* the margin passed to match, in cents
    orders,     \* resulting_orders: the flat list of orders created so far
    iters,      \* number of matches made so far
    pc,         \* "call", "loop", "done", "rejected"
    err,        \* "none" or "InvalidInput"
    capital,    \* total invested, in cents, set when the walk stops
    profit,     \* total theoretical profit, in cents, set when the walk stops
    ret,        \* reported return, in whole percent, set when the walk stops
    quote,      \* the odds quote handed to the normalizer
    prob,       \* the normalizer's result
    opc,        \* "quoted", "converted", "restored", "off"
    back,       \* the quoted value from_probability gives back
    raw,        \* prob: book present for the market -> outcome -> implied probability
    weights,    \* weights: book -> configured weight
    noVig,      \* no_vig_prob: book -> outcome -> probability with the vig removed
    weighted,   \* weighted_prob: outcome -> consensus probability
    fair,       \* fair_odds: outcome -> decimal odds of the consensus
    apc,        \* "called", "novig", "weighted", "done", "failed", "off"
    aerr,       \* "none" or the error the aggregation raised
    form,       \* the odds widgets: sportsbook -> [a, b], 0 when left blank
    odds_format,    \* the value of the odds format dropdown
    configured,     \* slug and both team names are filled in
    data_storage,   \* self.data_storage
    requests,       \* number of submissions so far (the source of request_id)
    status          \* the last message written to status_output

mvars == <<store, curA, curB, origA, origB, margin, orders, iters, pc, err,
           capital, profit, ret>>
ovars == <<quote, prob, opc, back>>
avars == <<raw, weights, noVig, weighted, fair, apc, aerr>>
nvars == <<form, odds_format, configured, data_storage, requests, status>>
vars == <<store, curA, curB, origA, origB, margin, orders, iters, pc, err,
          capital, profit, ret, quote, prob, opc, back,
          raw, weights, noVig, weighted, fair, apc, aerr,
          form, odds_format, configured, data_storage, requests, status>>

(***************************************************************************)
(* Bounds of the model.                                                    *)
(***************************************************************************)
MaxLevels == 2
MaxAmerican == 160
MaxDecimal == 250
MaxFraction == 10

(***************************************************************************)
(* Order books.                                                            *)
(***************************************************************************)
Dollar == 100

Level(p, n) == [price |-> p, size |-> n]

ExampleA == <<Level(47, 25), Level(53, 60), Level(54, 10)>>
ExampleB == <<Level(48, 10), Level(49, 60), Level(54, 10)>>

\* Input domains of the bounded model: a few prices around the one-dollar
\* threshold (30+30 = 60, 30+45 = 75, 30+55 = 85, 45+45 = 90, 45+55 = 100,
\* 55+55 = 110), sizes including the non-positive size 0, and margins of 0
\* and 10 cents.
Prices == {30, 45, 55}
Sizes == {0, 1, 2}
Margins == {0, 10}
Levels == {Level(p, n) : p \in Prices, n \in Sizes}

SeqsUpTo(S, n) == UNION {[1..k -> S] : k \in 0..n}
Sides == SeqsUpTo(Levels, MaxLevels)

RECURSIVE TotalSize(_)
TotalSize(s) == IF s = <<>> THEN 0 ELSE Head(s).size + TotalSize(Tail(s))

Min(x, y) == IF x <= y THEN x ELSE y

\* Validation that lets two adjacent levels share a price.
ValidSideAllowsTies(s) ==
    /\ \A i \in 1..Len(s) : s[i].size > 0
    /\ \A i \in 1..(Len(s) - 1) : s[i].price <= s[i + 1].price

\* Validation that also refuses a side without levels.
ValidSideNonEmpty(s) ==
    /\ s # <<>>
    /\ \A i \in 1..Len(s) : s[i].size > 0
    /\ \A i \in 1..(Len(s) - 1) : s[i].price < s[i + 1].price

\* Checking the sizes only.
ValidSideSizesOnly(s) == \A i \in 1..Len(s) : s[i].size > 0

\* A side accepted by match: sizes > 0, prices strictly ascending (so no
\* two levels share a price).
ValidSide(s) ==
    /\ \A i \in 1..Len(s) : s[i].size > 0
    /\ \A i \in 1..(Len(s) - 1) : s[i].price < s[i + 1].price

ValidPair(a, b) == ValidSide(a) /\ ValidSide(b)

\* Walking the caller's book itself instead of a copy.
SameBook(cell) == cell

\* The matcher works on its own copy of each book.
OurCopy(cell) == IF cell = "in_a" THEN "copy_a" ELSE "copy_b"

\* The cheapest sell of a (price-ascending) side.
Cheapest(s) == Head(s)

\* Adding the margin to the dollar instead of taking it off.
LimitAddsMargin(m) == Dollar + m

\* The threshold a pair of prices must stay under.
Limit(m) == Dollar - m

\* Matching also when the two prices reach the threshold exactly.
MatchRuleAtMost(pa, pb, limit) == pa + pb <= limit

\* Requiring ten cents of edge more than the caller asked for.
MatchRuleWithFee(pa, pb, limit) == pa + pb < limit - 10

\* "... if their sum is less than $1"
MatchRule(pa, pb, limit) == pa + pb < limit

\* Taking the size of a's level whatever b has on offer.
MatchSizeOfA(a, b) == a.size

\* "... we take the smaller size"
MatchSize(a, b) == Min(a.size, b.size)

Order(m, p, n) == [market |-> m, price |-> p, size |-> n, type |-> "buy"]

\* The two orders of one match.  resulting_orders lists b before a for the
\* first match and a before b for the second, so either order can occur.
PairOrders(a, b, n) ==
    {<<Order("a", a.price, n), Order("b", b.price, n)>>,
     <<Order("b", b.price, n), Order("a", a.price, n)>>}

\* Removing the cheapest level whatever is left of it.
RemainingPopsLevel(s, n) == Tail(s)

\* Never removing a level, even when nothing is left of it.
RemainingKeepsLevel(s, n) == <<[Head(s) EXCEPT !.size = @ - n]>> \o Tail(s)

\* Leaving the book as it was.
RemainingUntouched(s, n) == s

\* Putting what is left of the cheapest level at the back of the book.
RemainingAtBack(s, n) ==
    IF Head(s).size - n = 0
    THEN Tail(s)
    ELSE Tail(s) \o <<[Head(s) EXCEPT !.size = @ - n]>>

\* The book after n units of its cheapest level were bought: the level is
\* removed when nothing is left of it, and keeps its price otherwise.
Remaining(s, n) ==
    IF Head(s).size - n = 0
    THEN Tail(s)
    ELSE <<[Head(s) EXCEPT !.size = @ - n]>> \o Tail(s)

\* Forgetting the size: the profit of one unit.
PairProfitPerUnit(n, p1, p2) == Dollar - (p1 + p2)

\* "1 - (0.48 + 0.47) * 10" read with the usual precedence.
PairProfitAsWritten(n, p1, p2) == Dollar - ((p1 + p2) * n)

\* Theoretical profit and investment of one match of n units.
PairProfit(n, p1, p2) == (Dollar - (p1 + p2)) * n

\* Counting the money spent on one leg only.
PairInvestedOneLeg(n, p1, p2) == p1 * n

PairInvested(n, p1, p2) == (p1 * n) + (p2 * n)

RECURSIVE TotalProfit(_)
TotalProfit(os) ==
    IF Len(os) < 2 THEN 0
    ELSE PairProfit(os[1].size, os[1].price, os[2].price)
         + TotalProfit(SubSeq(os, 3, Len(os)))

RECURSIVE TotalInvested(_)
TotalInvested(os) ==
    IF Len(os) < 2 THEN 0
    ELSE PairInvested(os[1].size, os[1].price, os[2].price)
         + TotalInvested(SubSeq(os, 3, Len(os)))

\* return = profit / invested, in whole percent ($1.10 / $23.90 = 4%)
ReturnPct(p, c) == (p * 100) \div c

\* An empty batch has no capital: its return is reported as zero.
ReportedReturn(p, c) == IF c = 0 THEN 0 ELSE ReturnPct(p, c)

bookA == store[curA]
bookB == store[curB]

CanMatch ==
    /\ bookA # <<>>
    /\ bookB # <<>>
    /\ MatchRule(Cheapest(bookA).price, Cheapest(bookB).price, Limit(margin))

(***************************************************************************)
(* match(pair, margin)                                                     *)
(***************************************************************************)
MatchInit ==
    /\ \/ origA = ExampleA /\ origB = ExampleB /\ margin = 0
       \/ origA \in Sides /\ origB \in Sides /\ margin \in Margins
    /\ store = [c \in {"in_a", "in_b", "copy_a", "copy_b"} |->
                  IF c = "in_a" THEN origA ELSE IF c = "in_b" THEN origB ELSE <<>>]
    /\ curA = "in_a"
    /\ curB = "in_b"
    /\ orders = <<>>
    /\ iters = 0
    /\ pc = "call"
    /\ err = "none"
    /\ capital = 0
    /\ profit = 0
    /\ ret = 0

\* An invalid pair is rejected before the walk begins.
Reject ==
    /\ pc = "call"
    /\ ~ValidPair(store["in_a"], store["in_b"])
    /\ pc' = "rejected"
    /\ err' = "InvalidInput"
    /\ UNCHANGED <<store, curA, curB, origA, origB, margin, orders, iters,
                   capital, profit, ret>>
    /\ UNCHANGED <<ovars, avars, nvars>>

\* The walk starts on copies of the two sides.
Begin ==
    /\ pc = "call"
    /\ ValidPair(store["in_a"], store["in_b"])
    /\ curA' = OurCopy("in_a")
    /\ curB' = OurCopy("in_b")
    /\ store' = [store EXCEPT !["copy_a"] = store["in_a"],
                              !["copy_b"] = store["in_b"]]
    /\ pc' = "loop"
    /\ UNCHANGED <<origA, origB, margin, orders, iters, err, capital, profit, ret>>
    /\ UNCHANGED <<ovars, avars, nvars>>

\* One match: an order on each side for the smaller size at the two
\* cheapest prices, removed from the books, then check the remainder.
Match ==
    /\ pc = "loop"
    /\ CanMatch
    /\ LET a == Cheapest(bookA)
           b == Cheapest(bookB)
           n == MatchSize(a, b)
       IN /\ \E pair \in PairOrders(a, b, n) : orders' = orders \o pair
          /\ store' = [c \in DOMAIN store |->
                         IF c = curA THEN Remaining(store[c], n)
                         ELSE IF c = curB THEN Remaining(store[c], n)
                         ELSE store[c]]
    /\ iters' = iters + 1
    /\ UNCHANGED <<curA, curB, origA, origB, margin, pc, err, capital, profit, ret>>
    /\ UNCHANGED <<ovars, avars, nvars>>

\* No more matches under the threshold: stop and batch the orders.
Stop ==
    /\ pc = "loop"
    /\ ~CanMatch
    /\ pc' = "done"
    /\ capital' = TotalInvested(orders)
    /\ profit' = TotalProfit(orders)
    /\ ret' = ReportedReturn(TotalProfit(orders), TotalInvested(orders))
    /\ UNCHANGED <<store, curA, curB, origA, origB, margin, orders, iters, err>>
    /\ UNCHANGED <<ovars, avars, nvars>>


(***************************************************************************)
(* Odds normalizer: convert_to_implied.                                    *)
(*                                                                         *)
(* A quote is [format, num, den]: American odds a are num = a, den = 1;    *)
(* decimal odds are given in hundredths, num/100; fractional odds are     *)
(* numerator num, denominator den.  A result is either the rational        *)
(* num/den with status "ok", or the exception the division raised.         *)
(***************************************************************************)
AmericanQuotes ==
    {[format |-> "American", num |-> a, den |-> 1] : a \in -MaxAmerican..MaxAmerican}
DecimalQuotes ==
    {[format |-> "Decimal", num |-> k, den |-> 100] : k \in -MaxDecimal..MaxDecimal}
FractionalQuotes ==
    {[format |-> "Fractional", num |-> n, den |-> d] :
        n \in -MaxFraction..MaxFraction, d \in -MaxFraction..MaxFraction}
Quotes == AmericanQuotes \cup DecimalQuotes \cup FractionalQuotes

Abs(x) == IF x < 0 THEN -x ELSE x

\* The true division n / d: an exact rational with a positive denominator,
\* or ZeroDivisionError.
Divide(n, d) ==
    IF d = 0 THEN [status |-> "ZeroDivisionError", num |-> 0, den |-> 1]
    ELSE IF d < 0 THEN [status |-> "ok", num |-> -n, den |-> -d]
    ELSE [status |-> "ok", num |-> n, den |-> d]

\* The favorite branch without abs().
AmericanToImpliedNoAbs(american_odds) ==
    IF american_odds > 0
    THEN Divide(100, american_odds + 100)
    ELSE Divide(american_odds, american_odds + 100)

\* convert_to_implied(american_odds)
AmericanToImplied(american_odds) ==
    IF american_odds > 0
    THEN Divide(100, american_odds + 100)
    ELSE Divide(Abs(american_odds), Abs(american_odds) + 100)

\* Returning the decimal odds themselves instead of their inverse.
DecimalToImpliedNoInverse(n, d) == Divide(n, d)

\* convert_to_implied(decimal_odds), decimal_odds = n / d
DecimalToImplied(n, d) == Divide(d, n)

\* convert_to_implied(numerator, denominator)
FractionalToImplied(numerator, denominator) ==
    Divide(denominator, numerator + denominator)

NoProb == [status |-> "none", num |-> 0, den |-> 1]

OddsInit ==
    /\ quote \in Quotes
    /\ prob = NoProb
    /\ opc = "quoted"
    /\ back = NoProb

ConvertAmerican ==
    /\ opc = "quoted"
    /\ quote.format = "American"
    /\ prob' = AmericanToImplied(quote.num)
    /\ opc' = "converted"
    /\ UNCHANGED <<quote, back, mvars, avars, nvars>>

ConvertDecimal ==
    /\ opc = "quoted"
    /\ quote.format = "Decimal"
    /\ prob' = DecimalToImplied(quote.num, quote.den)
    /\ opc' = "converted"
    /\ UNCHANGED <<quote, back, mvars, avars, nvars>>

ConvertFractional ==
    /\ opc = "quoted"
    /\ quote.format = "Fractional"
    /\ prob' = FractionalToImplied(quote.num, quote.den)
    /\ opc' = "converted"
    /\ UNCHANGED <<quote, back, mvars, avars, nvars>>

RECURSIVE Gcd(_, _)
Gcd(x, y) == IF y = 0 THEN x ELSE Gcd(y, x % y)

\* A probability is a number: the same value whichever quote produced it.
\* Value(p) is its canonical form, the fraction in lowest terms.
Value(p) ==
    LET g == Gcd(Abs(p.num), p.den)
    IN  [status |-> p.status, num |-> p.num \div g, den |-> p.den \div g]

InUnit(p) == p.status = "ok" /\ 0 < p.num /\ p.num < p.den

\* n / d rounded to the nearest integer, for n >= 0 and d > 0.
Round(n, d) == (2 * n + d) \div (2 * d)

\* Giving the probability back unchanged instead of inverting it.
ProbabilityToDecimalIdentity(p) == Divide(Value(p).num, Value(p).den)

\* fair_odds = 1 / weighted_prob
ProbabilityToDecimal(p) == Divide(Value(p).den, Value(p).num)

\* from_probability(p, American): the inverse of the two branches of
\* convert_to_implied, rounded to an integer.  At p = 1/2 both branches give
\* 100 in absolute value and `even` is the sign the implementation picks.
ProbabilityToAmerican(p, even) ==
    LET v == Value(p)
    IN  IF 2 * v.num < v.den
        THEN Divide(Round(100 * (v.den - v.num), v.num), 1)
        ELSE IF 2 * v.num > v.den
        THEN Divide(-Round(100 * v.num, v.den - v.num), 1)
        ELSE Divide(even, 1)

\* from_probability(p, Fractional): odds against, (1 - p) / p.
ProbabilityToFractional(p) ==
    LET v == Value(p) IN Divide(v.den - v.num, v.num)

RestoreAmerican ==
    /\ opc = "converted"
    /\ quote.format = "American"
    /\ InUnit(prob)
    /\ \E even \in {100, -100} : back' = ProbabilityToAmerican(prob, even)
    /\ opc' = "restored"
    /\ UNCHANGED <<quote, prob, mvars, avars, nvars>>

RestoreDecimal ==
    /\ opc = "converted"
    /\ quote.format = "Decimal"
    /\ prob.status = "ok"
    /\ back' = ProbabilityToDecimal(prob)
    /\ opc' = "restored"
    /\ UNCHANGED <<quote, prob, mvars, avars, nvars>>

RestoreFractional ==
    /\ opc = "converted"
    /\ quote.format = "Fractional"
    /\ InUnit(prob)
    /\ back' = ProbabilityToFractional(prob)
    /\ opc' = "restored"
    /\ UNCHANGED <<quote, prob, mvars, avars, nvars>>

(***************************************************************************)
(* Fair value aggregator: the weighted fair value calculation              *)
(* (src/notes/20250601-meeting.md).                                        *)
(***************************************************************************)
Books == {"pinnacle", "circa", "betfair"}
Outcomes == {"padres", "brewers"}

Rat(n, d) == [status |-> "ok", num |-> n, den |-> d]

\* Implied probabilities a book can report for one outcome, in quarters:
\* 0.5 and 0.75 (a vigged book quotes 0.5 + 0.75), 0, and a negative value.
RawProbs == {Rat(-1, 4), Rat(0, 4), Rat(2, 4), Rat(3, 4)}

\* Weights a caller can configure for a book.
Weights == {Rat(0, 100), Rat(25, 100), Rat(50, 100)}

\* A failure test that also consults the error another call has left behind.
FailedOrErrorPending(p) == p.status # "ok" \/ err # "none"

Failed(p) == p.status # "ok"
Failure(p, q) == IF Failed(p) THEN p ELSE q

\* p + q
RatAdd(p, q) ==
    IF Failed(p) \/ Failed(q) THEN Failure(p, q)
    ELSE Value(Rat(p.num * q.den + q.num * p.den, p.den * q.den))

\* p * q
RatMul(p, q) ==
    IF Failed(p) \/ Failed(q) THEN Failure(p, q)
    ELSE Value(Rat(p.num * q.num, p.den * q.den))

\* p / q
RatDiv(p, q) ==
    IF Failed(p) \/ Failed(q) THEN Failure(p, q)
    ELSE Value(Divide(p.num * q.den, p.den * q.num))

RatEq(p, q) == ~Failed(p) /\ ~Failed(q) /\ p.num * q.den = q.num * p.den
RatLeq(p, q) == ~Failed(p) /\ ~Failed(q) /\ p.num * q.den <= q.num * p.den

\* sum(f[x] for x in S)
RECURSIVE RatSum(_, _)
RatSum(f, S) ==
    IF S = {} THEN Rat(0, 1)
    ELSE LET x == CHOOSE y \in S : TRUE
         IN  RatAdd(f[x], RatSum(f, S \ {x}))

\* sum_of_probs: the book total of one book
BookTotal(probs) == RatSum(probs, Outcomes)

\* Leaving the vig in.
RemoveVigKeepsVig(p, total) == p

\* no_vig_prob = prob / sum_of_probs
RemoveVigOf(p, total) == RatDiv(p, total)

\* The weight the weighted sum multiplies book b's probability by.
UsedWeight(w, b) == w[b]

\* weighted_prob = sum(no_vig_prob[book] * weights[book] for book in books)
WeightedProb(nv, w, present, o) ==
    RatSum([b \in present |-> RatMul(nv[b][o], UsedWeight(w, b))], present)

\* fair_odds = 1 / weighted_prob
FairOddsOf(p) == RatDiv(Rat(1, 1), p)

books == DOMAIN raw

Unset == [o \in Outcomes |-> NoProb]

AggInit ==
    /\ raw \in UNION {[P -> [Outcomes -> RawProbs]] : P \in SUBSET Books}
    /\ weights \in [Books -> Weights]
    /\ noVig = [b \in DOMAIN raw |-> Unset]
    /\ weighted = Unset
    /\ fair = Unset
    /\ apc = "called"
    /\ aerr = "none"

\* Step 2 for every book present; a zero book total raises.
RemoveVig ==
    /\ apc = "called"
    /\ LET nv == [b \in books |->
                    [o \in Outcomes |-> RemoveVigOf(raw[b][o], BookTotal(raw[b]))]]
           bad == \E b \in books, o \in Outcomes : Failed(nv[b][o])
       IN  /\ noVig' = nv
           /\ apc' = IF bad THEN "failed" ELSE "novig"
           /\ aerr' = IF bad THEN "ZeroDivisionError" ELSE "none"
    /\ UNCHANGED <<raw, weights, weighted, fair, mvars, ovars, nvars>>

\* Step 3 for every outcome.
Weigh ==
    /\ apc = "novig"
    /\ weighted' = [o \in Outcomes |-> WeightedProb(noVig, weights, books, o)]
    /\ apc' = "weighted"
    /\ UNCHANGED <<raw, weights, noVig, fair, aerr, mvars, ovars, nvars>>

\* Step 4 for every outcome; a zero consensus raises.
FairOdds ==
    /\ apc = "weighted"
    /\ LET fo == [o \in Outcomes |-> FairOddsOf(weighted[o])]
           bad == \E o \in Outcomes : Failed(fo[o])
       IN  /\ fair' = fo
           /\ apc' = IF bad THEN "failed" ELSE "done"
           /\ aerr' = IF bad THEN "ZeroDivisionError" ELSE "none"
    /\ UNCHANGED <<raw, weights, noVig, weighted, mvars, ovars, nvars>>

AggOff ==
    /\ raw = [b \in {} |-> Unset]
    /\ weights = [b \in Books |-> Rat(0, 100)]
    /\ noVig = [b \in {} |-> Unset]
    /\ weighted = Unset
    /\ fair = Unset
    /\ apc = "off"
    /\ aerr = "none"

(***************************************************************************)
(* Manual odds entry notebook: class ManualOddsEntry                       *)
(* (src/notebooks/manual_odds_entry.ipynb).                                *)
(***************************************************************************)
MaxRequests == 2

\* sportsbooks, in the order submit_odds processes them
Sportsbooks == <<"betfair", "pinnacle", "fanduel">>

\* What a FloatText can hold: 0 (left blank), odds of 1, odds of 150.
OddsValues == {0, 1, 150}

BlankForm == [i \in 1..Len(Sportsbooks) |-> [a |-> 0, b |-> 0]]
Forms == [1..Len(Sportsbooks) -> [a : OddsValues, b : OddsValues]]

Raised(e) == [status |-> e, num |-> 0, den |-> 1]
PyNone == Raised("None")

\* american_to_probability: odds strictly between -100 and 100 are refused
AmericanToProbability(v) ==
    IF -100 < v /\ v < 100 THEN Raised("InvalidInput") ELSE AmericanToImplied(v)

\* decimal_to_probability: odds of 1 or less are refused
DecimalToProbability(v) ==
    IF v <= 1 THEN Raised("InvalidInput") ELSE DecimalToImplied(v, 1)

\* The conversion with the exception left to escape as a zero probability.
ConvertOddsKeepsGoing(odds_value, fmt) ==
    LET r == IF fmt = "American" THEN AmericanToProbability(odds_value)
             ELSE IF fmt = "Decimal" THEN DecimalToProbability(odds_value)
             ELSE Raised("ValueError")
    IN  IF r.status # "ok" THEN Rat(0, 1) ELSE r

\* convert_odds_to_probability: try ... except Exception: return None
ConvertOddsToProbability(odds_value, fmt) ==
    LET r == IF fmt = "American" THEN AmericanToProbability(odds_value)
             ELSE IF fmt = "Decimal" THEN DecimalToProbability(odds_value)
             ELSE Raised("ValueError")
    IN  IF r.status # "ok" THEN PyNone ELSE r

\* if team_a_widget.value and team_b_widget.value
Filled(f, i) == f[i].a # 0 /\ f[i].b # 0

\* if prob_a is None or prob_b is None
BookInvalid(f, fmt, i) ==
    /\ Filled(f, i)
    /\ \/ ConvertOddsToProbability(f[i].a, fmt) = PyNone
       \/ ConvertOddsToProbability(f[i].b, fmt) = PyNone

\* The first sportsbook of the loop at which submit_odds returns, or 0.
FirstInvalid(f, fmt) ==
    IF \E i \in 1..Len(Sportsbooks) : BookInvalid(f, fmt, i)
    THEN CHOOSE i \in 1..Len(Sportsbooks) :
            /\ BookInvalid(f, fmt, i)
            /\ \A j \in 1..(i - 1) : ~BookInvalid(f, fmt, j)
    ELSE 0

Entry(rid, src, team, p) ==
    [request_id |-> rid, source |-> src, team |-> team, probability |-> p]

\* entries after the loop has processed sportsbooks 1..i
RECURSIVE ManualEntries(_, _, _, _)
ManualEntries(f, fmt, rid, i) ==
    IF i = 0 THEN <<>>
    ELSE ManualEntries(f, fmt, rid, i - 1)
         \o (IF Filled(f, i)
             THEN <<Entry(rid, Sportsbooks[i], "a", ConvertOddsToProbability(f[i].a, fmt)),
                    Entry(rid, Sportsbooks[i], "b", ConvertOddsToProbability(f[i].b, fmt))>>
             ELSE <<>>)

\* What fetch_current_price can do: raise, return nothing, return prices.
Polymarket == {"raises", "nothing", "prices"}

PolymarketEntries(rid, poly) ==
    IF poly = "prices"
    THEN <<Entry(rid, "polymarket", "a", Rat(1, 2)), Entry(rid, "polymarket", "b", Rat(1, 2))>>
    ELSE <<>>

Message(m, book) == [msg |-> m, book |-> book]

NotebookInit ==
    /\ form \in Forms
    /\ odds_format \in {"American", "Decimal"}
    /\ configured \in BOOLEAN
    /\ data_storage = <<>>
    /\ requests = 0
    /\ status = Message("ready", "")

\* The user types odds into the cleared form.
EnterOdds ==
    /\ status.msg # "off"
    /\ form = BlankForm
    /\ requests < MaxRequests
    /\ form' \in Forms \ {BlankForm}
    /\ UNCHANGED <<odds_format, configured, data_storage, requests, status>>
    /\ UNCHANGED <<mvars, ovars, avars>>

\* The user fills in the slug and the team names.
FillConfig ==
    /\ status.msg # "off"
    /\ ~configured
    /\ configured' = TRUE
    /\ UNCHANGED <<form, odds_format, data_storage, requests, status>>
    /\ UNCHANGED <<mvars, ovars, avars>>

\* submit_odds: market configuration missing
SubmitUnconfigured ==
    /\ status.msg # "off"
    /\ requests < MaxRequests
    /\ ~configured
    /\ requests' = requests + 1
    /\ status' = Message("fill in market configuration", "")
    /\ UNCHANGED <<form, odds_format, configured, data_storage>>
    /\ UNCHANGED <<mvars, ovars, avars>>

\* submit_odds: a filled-in sportsbook has odds that do not convert
SubmitInvalid ==
    /\ status.msg # "off"
    /\ requests < MaxRequests
    /\ configured
    /\ FirstInvalid(form, odds_format) # 0
    /\ requests' = requests + 1
    /\ status' = Message("invalid odds format", Sportsbooks[FirstInvalid(form, odds_format)])
    /\ UNCHANGED <<form, odds_format, configured, data_storage>>
    /\ UNCHANGED <<mvars, ovars, avars>>

\* submit_odds: every filled-in sportsbook converts; store and clear the form
SubmitOdds ==
    /\ status.msg # "off"
    /\ requests < MaxRequests
    /\ configured
    /\ FirstInvalid(form, odds_format) = 0
    /\ requests' = requests + 1
    /\ \E poly \in Polymarket :
          data_storage' = data_storage
                          \o ManualEntries(form, odds_format, requests' , Len(Sportsbooks))
                          \o PolymarketEntries(requests', poly)
    /\ form' = BlankForm
    /\ status' = Message("submitted", "")
    /\ UNCHANGED <<odds_format, configured>>
    /\ UNCHANGED <<mvars, ovars, avars>>

\* clear_data
ClearData ==
    /\ status.msg # "off"
    /\ data_storage' = <<>>
    /\ status' = Message("all data cleared", "")
    /\ UNCHANGED <<form, odds_format, configured, requests>>
    /\ UNCHANGED <<mvars, ovars, avars>>

NotebookOff ==
    /\ form = BlankForm
    /\ odds_format = "American"
    /\ configured = FALSE
    /\ data_storage = <<>>
    /\ requests = 0
    /\ status = Message("off", "")

MatchOff ==
    /\ origA = <<>>
    /\ origB = <<>>
    /\ margin = 0
    /\ store = [c \in {"in_a", "in_b", "copy_a", "copy_b"} |-> <<>>]
    /\ curA = "in_a"
    /\ curB = "in_b"
    /\ orders = <<>>
    /\ iters = 0
    /\ pc = "off"
    /\ err = "none"
    /\ capital = 0
    /\ profit = 0
    /\ ret = 0

OddsOff ==
    /\ quote = [format |-> "none", num |-> 0, den |-> 1]
    /\ prob = NoProb
    /\ opc = "off"
    /\ back = NoProb

Init == MatchInit /\ OddsOff /\ AggOff /\ NotebookOff

Next == Reject \/ Begin \/ Match \/ Stop

Spec == Init /\ [][Next]_vars

FairSpec == Spec /\ WF_vars(Next)

InitOdds == OddsInit /\ MatchOff /\ AggOff /\ NotebookOff

NextOdds ==
    \/ ConvertAmerican
    \/ ConvertDecimal
    \/ ConvertFractional
    \/ RestoreAmerican
    \/ RestoreDecimal
    \/ RestoreFractional

SpecOdds == InitOdds /\ [][NextOdds]_vars

InitAgg == AggInit /\ MatchOff /\ OddsOff /\ NotebookOff

NextAgg == RemoveVig \/ Weigh \/ FairOdds

SpecAgg == InitAgg /\ [][NextAgg]_vars

InitNotebook == NotebookInit /\ MatchOff /\ OddsOff /\ AggOff

NextNotebook ==
    \/ EnterOdds
    \/ FillConfig
    \/ SubmitUnconfigured
    \/ SubmitInvalid
    \/ SubmitOdds
    \/ ClearData

SpecNotebook == InitNotebook /\ [][NextNotebook]_vars

(***************************************************************************)
(* One call of each of match, normalize and aggregate in flight at once,   *)
(* their steps interleaved in every order.  Some of the inputs make the    *)
(* call fail: an invalid pair, decimal odds 0, fractional odds 1/-1, a     *)
(* book total of 0, a market without sources.                              *)
(***************************************************************************)
CallPairs ==
    {<<ExampleA, ExampleB, 0>>,
     <<(<<Level(45, 0)>>), (<<Level(45, 1)>>), 0>>,
     <<(<<Level(30, 2), Level(45, 1)>>), (<<Level(45, 2)>>), 10>>}

CallQuotes ==
    {[format |-> "American", num |-> -150, den |-> 1],
     [format |-> "Decimal", num |-> 200, den |-> 100],
     [format |-> "Decimal", num |-> 0, den |-> 100],
     [format |-> "Fractional", num |-> 9, den |-> 10],
     [format |-> "Fractional", num |-> 1, den |-> -1]}

Line(p, q) == [o \in Outcomes |-> IF o = "padres" THEN p ELSE q]

CallMarkets ==
    {[b \in {} |-> Unset],
     [b \in {"pinnacle"} |-> Line(Rat(2, 4), Rat(3, 4))],
     [b \in {"pinnacle", "circa"} |->
        IF b = "pinnacle" THEN Line(Rat(2, 4), Rat(3, 4)) ELSE Line(Rat(0, 4), Rat(0, 4))],
     [b \in {"pinnacle", "betfair"} |->
        IF b = "pinnacle" THEN Line(Rat(2, 4), Rat(3, 4)) ELSE Line(Rat(3, 4), Rat(2, 4))]}

CallWeights ==
    {[b \in Books |-> Rat(25, 100)],
     [b \in Books |-> IF b = "pinnacle" THEN Rat(50, 100) ELSE Rat(25, 100)]}

CallInputs ==
    /\ \E c \in CallPairs : origA = c[1] /\ origB = c[2] /\ margin = c[3]
    /\ quote \in CallQuotes
    /\ raw \in CallMarkets
    /\ weights \in CallWeights

InitCalls == CallInputs /\ MatchInit /\ OddsInit /\ AggInit /\ NotebookOff

NextCalls ==
    \/ Reject
    \/ Begin
    \/ Match
    \/ Stop
    \/ ConvertAmerican
    \/ ConvertDecimal
    \/ ConvertFractional
    \/ RestoreAmerican
    \/ RestoreDecimal
    \/ RestoreFractional
    \/ RemoveVig
    \/ Weigh
    \/ FairOdds

SpecCalls == InitCalls /\ [][NextCalls]_vars

(***************************************************************************)
(* Properties of match.                                                    *)
(***************************************************************************)
NumPairs == Len(orders) \div 2

\* The order of pair i placed on market m.
Leg(i, m) == IF orders[2 * i - 1].market = m THEN orders[2 * i - 1] ELSE orders[2 * i]

RECURSIVE Matched(_, _)
Matched(os, m) ==
    IF os = <<>> THEN 0
    ELSE (IF Head(os).market = m THEN Head(os).size ELSE 0) + Matched(Tail(os), m)

\* A side with a defect: a non-positive size, or two levels whose prices
\* are not in strictly ascending order (equal prices included).
Defective(s) ==
    \/ \E i \in 1..Len(s) : s[i].size <= 0
    \/ \E i, j \in 1..Len(s) : i < j /\ s[i].price >= s[j].price

\* C1: every emitted pair satisfies price_A + price_B < 1 - margin; with
\* margin 0 no pair whose prices sum to exactly one dollar is emitted.
C1_Profitable ==
    /\ Len(orders) = 2 * NumPairs
    /\ \A i \in 1..NumPairs :
          /\ Leg(i, "a").market = "a"
          /\ Leg(i, "b").market = "b"
          /\ Leg(i, "a").price + Leg(i, "b").price < Dollar - margin
          /\ margin = 0 => Leg(i, "a").price + Leg(i, "b").price # Dollar

\* C1 witness: a run with margin 0 that emitted a pair and stopped with the
\* two cheapest remaining prices summing to exactly one dollar.
C1_Witness ==
    /\ pc = "done"
    /\ margin = 0
    /\ NumPairs >= 1
    /\ bookA # <<>>
    /\ bookB # <<>>
    /\ Head(bookA).price + Head(bookB).price = Dollar

\* C2: on a valid pair match terminates, and it never performs more than
\* |A| + |B| matching iterations.
C2_Terminates ==
    /\ ValidPair(origA, origB) => <>(pc = "done")
    /\ [](iters <= Len(origA) + Len(origB))

\* C2 witness: a finished run on two-level sides that took three iterations.
C2_Witness ==
    /\ pc = "done"
    /\ Len(origA) = 2
    /\ Len(origB) = 2
    /\ iters = 3

\* C3: for each market the matched size never exceeds the original side's
\* total size, and what remains in the working copy is the original total
\* minus the matched size.
C3_Conservation ==
    pc \in {"loop", "done"} =>
        /\ Matched(orders, "a") <= TotalSize(origA)
        /\ Matched(orders, "b") <= TotalSize(origB)
        /\ TotalSize(bookA) = TotalSize(origA) - Matched(orders, "a")
        /\ TotalSize(bookB) = TotalSize(origB) - Matched(orders, "b")

\* C3 witness: a finished run that matched part of a level and left a
\* remainder on both sides.
C3_Witness ==
    /\ pc = "done"
    /\ Matched(orders, "a") > 0
    /\ bookA # <<>>
    /\ Head(bookA).size < origA[Len(origA) - Len(bookA) + 1].size
    /\ TotalSize(bookB) > 0

\* C4: the worked example returns the pairs (10@0.47, 10@0.48) and
\* (15@0.47, 15@0.49) in that order, capital 23.90 and profit 1.10; after
\* the first pair A's head is 15@0.47; at the end A has no 0.47 level left
\* and B's head is 45@0.49.
C4_Example ==
    (origA = ExampleA /\ origB = ExampleB /\ margin = 0) =>
        /\ (pc = "loop" /\ NumPairs = 1) => Head(bookA) = Level(47, 15)
        /\ pc = "done" =>
              /\ NumPairs = 2
              /\ Len(orders) = 4
              /\ Leg(1, "a") = Order("a", 47, 10)
              /\ Leg(1, "b") = Order("b", 48, 10)
              /\ Leg(2, "a") = Order("a", 47, 15)
              /\ Leg(2, "b") = Order("b", 49, 15)
              /\ capital = 2390
              /\ profit = 110
              /\ \A i \in 1..Len(bookA) : bookA[i].price # 47
              /\ bookB # <<>>
              /\ Head(bookB) = Level(49, 45)

\* C4 witness: the worked example has run to its end.
C4_Witness ==
    /\ origA = ExampleA
    /\ origB = ExampleB
    /\ margin = 0
    /\ pc = "done"
    /\ NumPairs = 2

\* C5: a pair with a defective side (not strictly price-ascending, a
\* non-positive size, or two levels of equal price) is rejected with
\* InvalidInput before any matching step and without any order.
C5_RejectsInvalid ==
    (Defective(origA) \/ Defective(origB)) =>
        /\ pc \in {"call", "rejected"}
        /\ pc = "rejected" => err = "InvalidInput"
        /\ orders = <<>>
        /\ iters = 0
        /\ curA = "in_a"
        /\ curB = "in_b"

\* C5 witness: a rejected pair whose only defect is a duplicate price.
C5_Witness ==
    /\ pc = "rejected"
    /\ err = "InvalidInput"
    /\ Len(origA) = 2
    /\ origA[1].price = origA[2].price
    /\ \A i \in 1..Len(origA) : origA[i].size > 0
    /\ ~Defective(origB)

\* C6: with an empty side (the other side being a well-formed book) match
\* returns an empty batch with capital 0, profit 0 and a return reported
\* as zero, and no error.
C6_EmptySide ==
    ((origA = <<>> \/ origB = <<>>) /\ ~Defective(origA) /\ ~Defective(origB)) =>
        /\ pc # "rejected"
        /\ err = "none"
        /\ orders = <<>>
        /\ pc = "done" => (capital = 0 /\ profit = 0 /\ ret = 0)

\* C6 witness: match returned on an empty side A and a non-empty side B.
C6_Witness ==
    /\ pc = "done"
    /\ origA = <<>>
    /\ origB # <<>>
    /\ orders = <<>>

\* C7: match never changes its input sides, whether it returns a batch or
\* InvalidInput.
C7_InputUnchanged ==
    /\ store["in_a"] = origA
    /\ store["in_b"] = origB

\* C7 witness: match returned after decrementing and removing levels of
\* its working copies.
C7_Witness ==
    /\ pc = "done"
    /\ NumPairs >= 2
    /\ bookA # origA
    /\ bookB # origB
    /\ store["in_a"] = origA

(***************************************************************************)
(* Properties of the odds normalizer.                                      *)
(***************************************************************************)
Converted(f) == opc = "converted" /\ quote.format = f

\* C8: American odds a >= 100 convert to 100/(a+100), a <= -100 to
\* |a|/(|a|+100); -150 converts to 0.6.
C8_American ==
    Converted("American") =>
        /\ quote.num >= 100 =>
              /\ prob.status = "ok"
              /\ prob.num * (quote.num + 100) = 100 * prob.den
        /\ quote.num <= -100 =>
              /\ prob.status = "ok"
              /\ prob.num * ((-quote.num) + 100) = (-quote.num) * prob.den
        /\ quote.num = -150 => prob.num * 5 = 3 * prob.den

\* C8 witness: -150 was converted to 3/5.
C8_Witness ==
    /\ Converted("American")
    /\ quote.num = -150
    /\ prob.status = "ok"
    /\ prob.num * 5 = 3 * prob.den

\* C9: American odds strictly between -100 and 100 fail with InvalidInput;
\* -100 and 100 convert.
C9_AmericanRange ==
    Converted("American") =>
        /\ (quote.num > -100 /\ quote.num < 100) => prob.status = "InvalidInput"
        /\ quote.num \in {-100, 100} => prob.status = "ok"

\* C10: decimal odds d > 1 convert to 1/d (2.0 to 0.5); d <= 1 fails with
\* InvalidInput.
C10_Decimal ==
    Converted("Decimal") =>
        /\ quote.num > quote.den =>
              /\ prob.status = "ok"
              /\ prob.num * quote.num = prob.den * quote.den
        /\ quote.num = 2 * quote.den => prob.num * 2 = prob.den
        /\ quote.num <= quote.den => prob.status = "InvalidInput"

\* A quote the normalizer's contract calls valid: American odds outside
\* (-100, 100), decimal odds above 1, fractional odds of two positive parts.
ValidQuote(q) ==
    \/ q.format = "American" /\ (q.num >= 100 \/ q.num <= -100)
    \/ q.format = "Decimal" /\ q.num > q.den
    \/ q.format = "Fractional" /\ q.num > 0 /\ q.den > 0

\* C11: fractional odds n/d with n > 0 and d > 0 convert to d/(n+d) (9/10
\* to 10/19); n <= 0 or d <= 0 fails with InvalidInput.
C11_Fractional ==
    Converted("Fractional") =>
        /\ (quote.num > 0 /\ quote.den > 0) =>
              /\ prob.status = "ok"
              /\ prob.num * (quote.num + quote.den) = quote.den * prob.den
        /\ (quote.num = 9 /\ quote.den = 10) => prob.num * 19 = 10 * prob.den
        /\ (quote.num <= 0 \/ quote.den <= 0) => prob.status = "InvalidInput"

\* C13: the probability of every valid quote, whatever its format, lies
\* strictly between 0 and 1.
C13_OpenInterval ==
    (opc = "converted" /\ ValidQuote(quote)) =>
        /\ prob.status = "ok"
        /\ prob.num > 0
        /\ prob.num < prob.den

\* C13 witness: valid quotes of the three formats near the ends of the
\* interval have been converted (here decimal odds 1.01, probability 100/101).
C13_Witness ==
    /\ Converted("Decimal")
    /\ quote.num = 101
    /\ prob.status = "ok"
    /\ prob.num = 100
    /\ prob.den = 101

Restored(f) == opc = "restored" /\ quote.format = f /\ ValidQuote(quote)

\* The quoted value and the value given back are the same number.
SameValue == back.status = "ok" /\ back.num * quote.den = quote.num * back.den

Positive(p) == ~Failed(p) /\ p.num > 0

One == Rat(1, 1)

\* The vig has been removed (or the removal has raised).
VigRemoved == apc \in {"novig", "weighted", "done", "failed"}

\* C14: for every source with a positive book total, the no-vig
\* probabilities (each raw probability divided by the book total) sum to
\* exactly 1 over the outcomes of the market.
C14_NoVigSumsToOne ==
    VigRemoved =>
        \A b \in books :
            Positive(BookTotal(raw[b])) => RatEq(RatSum(noVig[b], Outcomes), One)

\* C14 witness: a book quoting 0.5 and 0.75 (book total 1.25) has had its
\* vig removed, giving 0.4 and 0.6.
C14_Witness ==
    /\ VigRemoved
    /\ \E b \in books :
          /\ raw[b]["padres"] = Rat(2, 4)
          /\ raw[b]["brewers"] = Rat(3, 4)
          /\ noVig[b]["padres"] = Rat(2, 5)
          /\ noVig[b]["brewers"] = Rat(3, 5)

\* The consensus has been computed.
Weighed == apc \in {"weighted", "done"} \/ (apc = "failed" /\ weighted # Unset)

\* The call has returned or raised.
Finished == apc \in {"done", "failed"}

\* Sum of the configured weights of the books present for the market.
PresentWeight == RatSum([b \in books |-> weights[b]], books)

\* C15: each outcome's consensus is the sum over the sources present of
\* (weight of the source / sum of the weights of the present sources) times
\* that source's no-vig probability, the vig being removed per source before
\* the weighting and nothing being normalized afterwards.
C15_WeightedAverage ==
    (Weighed /\ Positive(PresentWeight)) =>
        \A o \in Outcomes :
            RatEq(weighted[o],
                  RatSum([b \in books |->
                            RatMul(RatDiv(weights[b], PresentWeight),
                                   RatDiv(raw[b][o], BookTotal(raw[b])))], books))

\* C16: for every outcome the consensus lies between the smallest and the
\* largest of the contributing sources' no-vig probabilities, for any
\* non-negative weights.
C16_Convex ==
    (Weighed /\ books # {}) =>
        \A o \in Outcomes :
            /\ \E b \in books : RatLeq(noVig[b][o], weighted[o])
            /\ \E b \in books : RatLeq(weighted[o], noVig[b][o])

\* C17: with exactly one reporting source the consensus of every outcome is
\* that source's no-vig probability, whatever the source's weight.
C17_SingleSource ==
    (Weighed /\ Cardinality(books) = 1) =>
        \A b \in books, o \in Outcomes : RatEq(weighted[o], noVig[b][o])

\* C18: a market with zero sources fails with InsufficientData, a source
\* with a non-positive book total makes the call fail with InvalidInput, and
\* in neither case is a fair value returned.
C18_Failures ==
    Finished =>
        /\ books = {} => (apc = "failed" /\ aerr = "InsufficientData")
        /\ (\E b \in books : ~Positive(BookTotal(raw[b]))) =>
              (apc = "failed" /\ aerr = "InvalidInput")

\* C19: in a successful call the weights used for the sources present sum
\* to 1, and the weights of absent sources do not influence the consensus.
C19_Renormalized ==
    apc = "done" =>
        /\ RatEq(RatSum([b \in books |-> UsedWeight(weights, b)], books), One)
        /\ \A o \in Outcomes :
              RatEq(weighted[o],
                    WeightedProb(noVig,
                                 [b \in Books |-> IF b \in books THEN weights[b]
                                                  ELSE Rat(0, 100)],
                                 books, o))

(***************************************************************************)
(* Independence of calls.                                                  *)
(***************************************************************************)
\* What normalize returns for quote q when nothing else runs.
NormalizeAlone(q) ==
    IF q.format = "American" THEN AmericanToImplied(q.num)
    ELSE IF q.format = "Decimal" THEN DecimalToImplied(q.num, q.den)
    ELSE FractionalToImplied(q.num, q.den)

\* The matches of the walk over sides a and b when nothing else runs.
RECURSIVE WalkAlone(_, _, _)
WalkAlone(a, b, m) ==
    IF a = <<>> \/ b = <<>> THEN <<>>
    ELSE IF ~MatchRule(Head(a).price, Head(b).price, Limit(m)) THEN <<>>
    ELSE LET n == MatchSize(Head(a), Head(b))
         IN  <<[pa |-> Head(a).price, pb |-> Head(b).price, size |-> n]>>
             \o WalkAlone(Remaining(a, n), Remaining(b, n), m)

\* What match has produced is what it produces alone on the same pair.
MatchAsAlone ==
    IF ~ValidPair(origA, origB)
    THEN pc = "rejected" /\ err = "InvalidInput" /\ orders = <<>>
    ELSE LET w == WalkAlone(origA, origB, margin)
         IN  /\ pc = "done"
             /\ err = "none"
             /\ NumPairs = Len(w)
             /\ \A i \in 1..Len(w) :
                   /\ Leg(i, "a") = Order("a", w[i].pa, w[i].size)
                   /\ Leg(i, "b") = Order("b", w[i].pb, w[i].size)
             /\ capital = TotalInvested(orders)
             /\ profit = TotalProfit(orders)
             /\ ret = ReportedReturn(profit, capital)

\* What aggregate returns for r and w when nothing else runs.
AggregateAlone(r, w) ==
    LET present == DOMAIN r
        nv == [b \in present |->
                 [o \in Outcomes |-> RatDiv(r[b][o], BookTotal(r[b]))]]
        wp == [o \in Outcomes |-> WeightedProb(nv, w, present, o)]
        fo == [o \in Outcomes |-> RatDiv(One, wp[o])]
    IN  IF \E b \in present, o \in Outcomes : nv[b][o].status # "ok"
        THEN [apc |-> "failed", aerr |-> "ZeroDivisionError", noVig |-> nv,
              weighted |-> Unset, fair |-> Unset]
        ELSE IF \E o \in Outcomes : fo[o].status # "ok"
        THEN [apc |-> "failed", aerr |-> "ZeroDivisionError", noVig |-> nv,
              weighted |-> wp, fair |-> fo]
        ELSE [apc |-> "done", aerr |-> "none", noVig |-> nv,
              weighted |-> wp, fair |-> fo]

ValidCall == ~Defective(origA) /\ ~Defective(origB)

\* C21: when match stops on a valid pair no profitable match remains:
\* one working side is empty, or every remaining level of A and every
\* remaining level of B have prices summing to at least 1 - margin.
C21_NoMatchLeft ==
    (pc = "done" /\ ValidCall) =>
        \/ bookA = <<>>
        \/ bookB = <<>>
        \/ \A i \in 1..Len(bookA), j \in 1..Len(bookB) :
              bookA[i].price + bookB[j].price >= Dollar - margin

\* C21 witness: the walk made a match and stopped with levels left on both
\* sides, two of them on A.
C21_Witness ==
    /\ pc = "done"
    /\ ValidCall
    /\ NumPairs >= 1
    /\ Len(bookA) = 2
    /\ bookB # <<>>

\* C22 as stated: every emitted pair is a buy on A followed by a buy on B,
\* both of the same positive size.
C22_PairAThenB ==
    \A i \in 1..NumPairs :
        /\ orders[2 * i - 1].market = "a"
        /\ orders[2 * i].market = "b"
        /\ orders[2 * i - 1].size = orders[2 * i].size
        /\ orders[2 * i].size > 0

\* C22 amended: each matching iteration adds exactly one pair to the batch,
\* a buy on A at the price of A's cheapest remaining level and a buy on B at
\* the price of B's cheapest remaining level, listed in either order, both
\* of size min(a.size, b.size), a positive integer.
C22_OnePairPerMatch ==
    [][iters' # iters =>
          LET a == Head(bookA)
              b == Head(bookB)
              n == IF a.size < b.size THEN a.size ELSE b.size
              k == Len(orders)
          IN  /\ iters' = iters + 1
              /\ Len(orders') = k + 2
              /\ SubSeq(orders', 1, k) = orders
              /\ {orders'[k + 1], orders'[k + 2]} =
                    {Order("a", a.price, n), Order("b", b.price, n)}
              /\ n > 0]_vars

\* C22 witness: the batch of the worked example as the source lists it, b
\* before a in the first pair and a before b in the second.
C22_Witness ==
    /\ origA = ExampleA
    /\ origB = ExampleB
    /\ pc = "done"
    /\ orders = <<Order("b", 48, 10), Order("a", 47, 10),
                  Order("a", 47, 15), Order("b", 49, 15)>>

\* Side s after size n was bought at its head, as the claim describes it.
Decremented(s, n) ==
    IF Head(s).size = n THEN SubSeq(s, 2, Len(s))
    ELSE [i \in 1..Len(s) |-> IF i = 1 THEN Level(s[1].price, s[1].size - n) ELSE s[i]]

\* C23: after each matching iteration both head levels have been
\* decremented by the matched size, a level whose size reached zero is
\* gone, a level with a remainder stays at the head at its price; and at
\* every loop head both working copies hold only sizes > 0 in strictly
\* ascending price order.
C23_WorkingCopies ==
    /\ [](pc = "loop" => (~Defective(bookA) /\ ~Defective(bookB)))
    /\ [][iters' # iters =>
            LET n == orders'[Len(orders')].size
            IN  /\ bookA' = Decremented(bookA, n)
                /\ bookB' = Decremented(bookB, n)]_vars

\* C23 witness: at a loop head after a match of size 1, A's head level of
\* size 2 has stayed at the head with size 1 and B's head level is gone.
C23_Witness ==
    /\ pc = "loop"
    /\ NumPairs = 1
    /\ Len(origA) = 2
    /\ Len(origB) = 2
    /\ Head(origA).size = 2
    /\ Head(origB).size = 1
    /\ bookA = <<Level(Head(origA).price, 1), origA[2]>>
    /\ bookB = <<origB[2]>>

\* Total size left on the two working copies.
RemainingSize == TotalSize(bookA) + TotalSize(bookB)

\* C24: the total remaining size summed over both working sides strictly
\* decreases in every matching iteration.
C24_Variant == [][iters' # iters => RemainingSize' < RemainingSize]_vars

\* C24 witness: after three matching iterations the two working copies
\* hold less than the two original sides did.
C24_Witness ==
    /\ iters = 3
    /\ RemainingSize < TotalSize(origA) + TotalSize(origB)

\* size * (price_A + price_B) summed over the first k emitted pairs.
RECURSIVE BatchCapital(_)
BatchCapital(k) ==
    IF k = 0 THEN 0
    ELSE Leg(k, "a").size * (Leg(k, "a").price + Leg(k, "b").price)
         + BatchCapital(k - 1)

\* size * (1 - price_A - price_B) summed over the first k emitted pairs.
RECURSIVE BatchProfit(_)
BatchProfit(k) ==
    IF k = 0 THEN 0
    ELSE Leg(k, "a").size * (Dollar - Leg(k, "a").price - Leg(k, "b").price)
         + BatchProfit(k - 1)

Batch ==
    [i \in 1..NumPairs |->
        [pa |-> Leg(i, "a").price, pb |-> Leg(i, "b").price, size |-> Leg(i, "a").size]]

IsPrefix(s, t) == Len(s) <= Len(t) /\ SubSeq(t, 1, Len(s)) = s

\* C26: for a fixed valid pair and margins m1 <= m2, the batch match
\* returns with margin m2 is a prefix of the batch it returns with margin
\* m1: the pairs before the cut are the same pairs in the same order.
C26_MarginPrefix ==
    (pc = "done" /\ ValidCall) =>
        \A m \in Margins :
            /\ m <= margin => IsPrefix(Batch, WalkAlone(origA, origB, m))
            /\ m >= margin => IsPrefix(WalkAlone(origA, origB, m), Batch)

\* C26 witness: a run with margin 10 has returned a non-empty batch that
\* is shorter than the batch of the same pair with margin 0.
C26_Witness ==
    /\ pc = "done"
    /\ ValidCall
    /\ margin = 10
    /\ NumPairs >= 1
    /\ Len(WalkAlone(origA, origB, 0)) > NumPairs

\* C27: when every source present reports every outcome and carries one
\* weight for all outcomes, the consensus probabilities sum to exactly 1
\* over the outcomes of the market.
C27_ConsensusSumsToOne ==
    (Weighed /\ books # {} /\ Positive(PresentWeight)) =>
        RatEq(RatSum(weighted, Outcomes), One)

\* C28: for every batch match returns, total capital + total profit is the
\* matched size of one leg (one dollar of payout per matched unit), and for
\* a non-empty batch with margin >= 0 the total profit and the return are
\* strictly positive.
C28_Payout ==
    pc = "done" =>
        /\ capital + profit = Dollar * Matched(orders, "a")
        /\ Matched(orders, "a") = Matched(orders, "b")
        /\ (NumPairs >= 1 /\ margin >= 0) => (profit > 0 /\ ret > 0)

\* C28 witness: a finished batch of three pairs bought with a margin of
\* zero.
C28_Witness ==
    /\ pc = "done"
    /\ margin = 0
    /\ NumPairs = 3
    /\ Matched(orders, "a") >= 3
    /\ profit > 0

\* price_A + price_B of the i-th emitted pair.
PairSum(i) == Leg(i, "a").price + Leg(i, "b").price

\* C29 as stated: the sums price_A + price_B of successive pairs strictly
\* increase and the number of emitted pairs is at most |A| + |B| - 1.
C29_AtMostLevelsMinusOne ==
    (pc = "done" /\ ValidCall) =>
        /\ \A i \in 1..(NumPairs - 1) : PairSum(i) < PairSum(i + 1)
        /\ NumPairs <= Len(origA) + Len(origB) - 1

\* C29 amended: within one batch the sums price_A + price_B of successive
\* pairs strictly increase, so no combination of an A price level and a B
\* price level is emitted twice, and a non-empty batch has at most
\* |A| + |B| - 1 pairs (two empty sides give the empty batch, 0 pairs,
\* where |A| + |B| - 1 is -1).
C29_StrictlyIncreasing ==
    pc \in {"loop", "done"} =>
        /\ \A i \in 1..(NumPairs - 1) : PairSum(i) < PairSum(i + 1)
        /\ \A i, j \in 1..NumPairs :
              (Leg(i, "a").price = Leg(j, "a").price
               /\ Leg(i, "b").price = Leg(j, "b").price) => i = j
        /\ NumPairs >= 1 => NumPairs <= Len(origA) + Len(origB) - 1

\* C29 witness: two sides of two levels each have given three pairs, the
\* most that |A| + |B| - 1 allows.
C29_Witness ==
    /\ pc = "done"
    /\ Len(origA) = 2
    /\ Len(origB) = 2
    /\ NumPairs = 3
    /\ PairSum(1) < PairSum(2)
    /\ PairSum(2) < PairSum(3)

(***************************************************************************)
(* Properties of the manual odds entry notebook.                           *)
(***************************************************************************)
\* The converter called for format fmt raises on value v, or there is none.
ConversionFails(v, fmt) ==
    \/ fmt = "American" /\ AmericanToProbability(v).status # "ok"
    \/ fmt = "Decimal" /\ DecimalToProbability(v).status # "ok"
    \/ fmt \notin {"American", "Decimal"}

\* A sportsbook with both odds filled in has odds whose conversion fails.
HasInvalidBook ==
    \E i \in 1..Len(Sportsbooks) :
        /\ form[i].a # 0
        /\ form[i].b # 0
        /\ ConversionFails(form[i].a, odds_format) \/ ConversionFails(form[i].b, odds_format)

\* C30: convert_odds_to_probability turns every conversion failure into
\* None; a submission in which the odds of a filled-in sportsbook fail to
\* convert appends nothing to data_storage, whatever earlier sportsbooks
\* converted; data_storage grows only by the extend that ends a submission
\* and is emptied only by clear_data.
C30_AllOrNothing ==
    [][/\ \A v \in OddsValues, fmt \in {"American", "Decimal", "Fractional"} :
              ConversionFails(v, fmt) => ConvertOddsToProbability(v, fmt) = PyNone
       /\ (requests' # requests /\ HasInvalidBook) => data_storage' = data_storage
       /\ data_storage' # data_storage =>
              \/ /\ status'.msg = "all data cleared"
                 /\ data_storage' = <<>>
              \/ /\ status'.msg = "submitted"
                 /\ requests' = requests + 1
                 /\ Len(data_storage') > Len(data_storage)
                 /\ SubSeq(data_storage', 1, Len(data_storage)) = data_storage]_vars

\* C30 witness: the second submission was refused at pinnacle after betfair
\* had converted, and data_storage still holds the first submission only.
C30_Witness ==
    /\ status = Message("invalid odds format", "pinnacle")
    /\ form[1].a # 0
    /\ form[1].b # 0
    /\ requests = 2
    /\ data_storage # <<>>
    /\ \A k \in 1..Len(data_storage) : data_storage[k].request_id = 1

====
